---- MODULE Spec2Model ----
(***************************************************************************)
(* Trial orchestration and backtest evaluation of bravebird/dlquant:       *)
(*   models/LightGBMModel.py       hyperparameter study (optuna + darts)   *)
(*   models/TSMixerModel_deploy.py single training run with fixed params   *)
(*                                                                         *)
(* Time series are sequences of points [t |-> timestamp, v |-> value] on a *)
(* regular index; the timestamp of the i-th point of test is i.            *)
(* Probabilities are held in tenths (0.5 is 5), a precision as the reduced *)
(* fraction <<num, den>>.                                                  *)
(***************************************************************************)
EXTENDS Integers, Sequences, FiniteSets, TLC

\* ------------------------------------------------------------ bounds
\* n_trials of study.optimize (50 in the source), kept small here
n_trials == 1
\* trials the storage can hold before no further trial is asked
MaxStored == 2
\* trials already in the storage when the script is first started
MaxPrior == 1
\* largest PRED_STEPS (config TIMESERIES_LENGTH["test_length"]) drawn
MaxPredSteps == 2
\* most points of test that precede the evaluation window (short histories)
MaxHistory == 1
\* largest value the sampler proposes for lags
MaxLags == 1
\* longest vectors handed to the scoring functions on their own
MaxLen == 4

\* ------------------------------------------------------------ program constants
LagsLow == 1
LagsHigh == 64
OutputChunkLow == 1
OutputChunkHigh == 20
\* 0.5, in tenths
Threshold == 5
\* best_params.input_chunk_length of the TSMixer deployment
input_chunk_length == 46

Min(a, b) == IF a <= b THEN a ELSE b
Max(a, b) == IF a >= b THEN a ELSE b

\* ------------------------------------------------------------ values
NoValue == <<>>
NoParams == <<>>
NoSeries == <<>>

RECURSIVE GCD(_, _)
GCD(a, b) == IF b = 0 THEN a ELSE GCD(b, a % b)

\* the float tp / pp, kept exact
Frac(num, den) == LET g == GCD(num, den) IN <<num \div g, den \div g>>

FracLess(x, y) == x[1] * y[2] < y[1] * x[2]

\* Python's s[-n:] : the whole of s when n = 0 or n >= len(s)
PyTailLen(len, n) == IF n = 0 \/ n >= len THEN len ELSE n

PyTail(s, n) == SubSeq(s, Len(s) - PyTailLen(Len(s), n) + 1, Len(s))

\* Python's s[:-n] : empty when n = 0 or n >= len(s)
PyHeadLen(len, n) == IF n = 0 \/ n >= len THEN 0 ELSE len - n

time_index(s) == [i \in 1..Len(s) |-> s[i].t]

values(s) == [i \in 1..Len(s) |-> s[i].v]

\* sequences over S of length exactly n
SeqsOfLen(S, n) == [1..n -> S]

\* ------------------------------------------------------------ libraries, as called
\* optuna: trial.suggest_int(name, low, high) draws from low..high and raises
\* ValueError when low > high (no value can be drawn)
suggest_int(low, high) == IF low > high THEN {} ELSE low..high

\* upper bound handed to suggest_int for output_chunk_length
OutputChunkUpper(pred_steps) == Min(OutputChunkHigh, pred_steps)

\* values the sampler proposes for lags (the draw is capped by MaxLags)
LagsProposals == suggest_int(LagsLow, Min(LagsHigh, MaxLags))

\* probabilities a fitted LightGBM model may forecast, in tenths
Probs == {4, 6}

\* raw outputs (logits) a fitted TSMixer model may forecast
Logits == {-1, 0, 1}

\* torch.sigmoid, in tenths: sigmoid(-1) = 0.27, sigmoid(0) = 0.5, sigmoid(1) = 0.73
sigmoid_torch(x) == [i \in 1..Len(x) |-> CASE x[i] < 0 -> 3 [] x[i] = 0 -> 5 [] OTHER -> 7]

\* the threshold met counts as positive
BinarizeAtLeast(probabilities) == [i \in 1..Len(probabilities) |-> IF probabilities[i] >= Threshold THEN 1 ELSE 0]

\* (probabilities > 0.5).astype(int)
Binarize(probabilities) == [i \in 1..Len(probabilities) |-> IF probabilities[i] > Threshold THEN 1 ELSE 0]

TruePositives(y_true, y_pred) == Cardinality({i \in 1..Len(y_pred) : y_pred[i] = 1 /\ y_true[i] = 1})

PredictedPositives(y_pred) == Cardinality({i \in 1..Len(y_pred) : y_pred[i] = 1})

\* sklearn precision_score's first step, check_consistent_length
ConsistentLength(y_true, y_pred) == Len(y_true) = Len(y_pred)

\* sklearn precision_score on inputs of consistent length: tp / (tp + fp), and
\* 0.0 (with a warning, zero_division="warn") when nothing is predicted positive
precision_score(y_true, y_pred) ==
    IF PredictedPositives(y_pred) = 0 THEN Frac(0, 1)
    ELSE Frac(TruePositives(y_true, y_pred), PredictedPositives(y_pred))

\* the index one point early
StartStampEarly(len, n) == len - n

\* series[-n].time_index of a series of len points stamped 1..len (Python's
\* negative index: -0 is index 0)
StartStamp(len, n) == IF n = 0 THEN 1 ELSE len - n + 1

\* darts: the first point of series a model with target lags -1..-lags can
\* forecast is the one with lags points before it
FirstForecastable(lags) == lags + 1

\* darts historical_forecasts(series, start, forecast_horizon=1, stride=1,
\* retrain=False): one forecast per point from start to the end of series,
\* each stamped with the point it forecasts
ForecastStamps(first, len) == [i \in 1..(len - first + 1) |-> first + i - 1]

MakeSeries(stamps, vals) == [i \in 1..Len(stamps) |-> [t |-> stamps[i], v |-> vals[i]]]

\* optuna: the COMPLETE trials of a study
CompleteTrials(trials) == {i \in 1..Len(trials) : trials[i].state = "COMPLETE"}

HasBest(trials) == CompleteTrials(trials) # {}

\* the COMPLETE trial of least value (direction="minimize")
BestIndexMinimize(trials) ==
    CHOOSE i \in CompleteTrials(trials) :
        \A j \in CompleteTrials(trials) :
            /\ ~FracLess(trials[j].value, trials[i].value)
            /\ (trials[j].value = trials[i].value => i <= j)

\* optuna study.best_trial under direction="maximize": a COMPLETE trial of
\* greatest value, the earliest such
BestIndex(trials) ==
    CHOOSE i \in CompleteTrials(trials) :
        \A j \in CompleteTrials(trials) :
            /\ ~FracLess(trials[i].value, trials[j].value)
            /\ (trials[j].value = trials[i].value => i <= j)

best_value(trials) == trials[BestIndex(trials)].value

best_params(trials) == trials[BestIndex(trials)].params

\* ------------------------------------------------------------ state
VARIABLES
    script,             \* which script runs: "LightGBMModel" or "TSMixerModel_deploy"
    PRED_STEPS,         \* TIMESERIES_LENGTH["test_length"]
    test,               \* data["test"]: [len, tail]; tail = the trailing labels the scripts read
    storage,            \* the sqlite study "tftmodel-precision-optimization": its trials
    loaded,             \* the trials create_study found in the storage
    pc,                 \* position of the running script
    nRun,               \* trials asked by this call of study.optimize
    trial,              \* number of the running trial
    lags,               \* lags of the model built for the running trial
    model,              \* "none", "built" or "fitted"
    model_ref,          \* train_and_evaluate still names the model
    cache_emptied,      \* torch.cuda.empty_cache() ran after the model's last use
    te,                 \* train_and_evaluate: "idle", "running", "returned", "raised"
    backtest_series,    \* output of historical_forecasts / predict
    true_labels,
    binary_predictions,
    precision,
    err,                \* the exception in flight, or "none"
    phases,             \* steps the running evaluation has been through
    reported            \* what the final report logged

vars == <<script, PRED_STEPS, test, storage, loaded, pc, nRun, trial, lags, model,
          model_ref, cache_emptied, te, backtest_series, true_labels,
          binary_predictions, precision, err, phases, reported>>

\* data["test"][-n:]
TestSlice(n) ==
    LET k == PyTailLen(test.len, n)
    IN  [i \in 1..k |-> [t |-> test.len - k + i, v |-> test.tail[Len(test.tail) - k + i]]]

\* number of points of test before the evaluation window: short histories,
\* and one long enough for every model of either script
HistoryLens == (0..MaxHistory) \cup {input_chunk_length}

\* trials another run left in the storage
PriorTrial(n) ==
    { [number |-> n, state |-> "FAIL", params |-> NoParams, value |-> NoValue],
      [number |-> n, state |-> "COMPLETE", params |-> ("lags" :> 1 @@ "output_chunk_length" :> 1),
       value |-> Frac(1, 2)] }

PriorStorages ==
    UNION { {s \in [1..n -> UNION {PriorTrial(k) : k \in 0..(n - 1)}] :
                \A i \in 1..n : s[i].number = i - 1}
            : n \in 0..MaxPrior }

\* the bundle: test holds at least PRED_STEPS points
Bundles(pred_steps) ==
    IF pred_steps = 0
    THEN { [len |-> n, tail |-> l] : n \in {1}, l \in SeqsOfLen({0, 1}, 1) }
    ELSE UNION { { [len |-> pred_steps + h, tail |-> l] : l \in SeqsOfLen({0, 1}, pred_steps) }
                 : h \in HistoryLens }

Locals ==
    /\ trial = -1
    /\ lags = 0
    /\ model = "none"
    /\ model_ref = FALSE
    /\ cache_emptied = FALSE
    /\ te = "idle"
    /\ backtest_series = NoSeries
    /\ true_labels = <<>>
    /\ binary_predictions = <<>>
    /\ precision = NoValue
    /\ err = "none"
    /\ phases = <<>>

Init ==
    /\ script \in {"LightGBMModel", "TSMixerModel_deploy"}
    /\ PRED_STEPS \in 0..MaxPredSteps
    /\ test \in Bundles(PRED_STEPS)
    /\ storage \in IF script = "LightGBMModel" THEN PriorStorages ELSE {<<>>}
    /\ loaded = <<>>
    /\ pc = IF script = "LightGBMModel" THEN "start" ELSE "ts_define"
    /\ nRun = 0
    /\ reported = NoValue
    /\ Locals

\* the locals of objective and train_and_evaluate, as a call starts
ResetEval ==
    /\ lags' = 0
    /\ model' = "none"
    /\ model_ref' = FALSE
    /\ cache_emptied' = FALSE
    /\ te' = "idle"
    /\ backtest_series' = NoSeries
    /\ true_labels' = <<>>
    /\ binary_predictions' = <<>>
    /\ precision' = NoValue
    /\ err' = "none"
    /\ phases' = <<>>

Fixed == UNCHANGED <<script, PRED_STEPS, test>>

EvalUnchanged ==
    UNCHANGED <<lags, model, model_ref, cache_emptied, te, backtest_series, true_labels,
                binary_predictions, precision, err, phases>>

\* ------------------------------------------------------------ LightGBMModel.py
\* the study is created anew, whatever the storage held
CreateStudyAnew ==
    /\ pc = "start"
    /\ storage' = <<>>
    /\ loaded' = <<>>
    /\ pc' = "optimize"
    /\ UNCHANGED <<nRun, trial, reported>>
    /\ EvalUnchanged
    /\ Fixed

\* optuna.create_study(..., storage="sqlite:///...", load_if_exists=True): the
\* study of that name is created when absent and loaded, trials kept, when present
CreateStudy ==
    /\ pc = "start"
    /\ loaded' = storage
    /\ pc' = "optimize"
    /\ UNCHANGED <<storage, nRun, trial, reported>>
    /\ EvalUnchanged
    /\ Fixed

\* study.optimize, one more trial: study.ask() stores a RUNNING trial whose
\* number is the count of the trials stored so far, then objective(trial) starts
Ask ==
    /\ pc = "optimize"
    /\ nRun < n_trials
    /\ Len(storage) < MaxStored
    /\ storage' = Append(storage, [number |-> Len(storage), state |-> "RUNNING",
                                   params |-> NoParams, value |-> NoValue])
    /\ trial' = Len(storage)
    /\ nRun' = nRun + 1
    /\ ResetEval
    /\ pc' = "define_model"
    /\ UNCHANGED <<loaded, reported>>
    /\ Fixed

\* the stored trial number n with its params replaced
WithParams(trials, n, ps) == [trials EXCEPT ![n + 1].params = ps]

\* define_model(trial): lags is suggested (and stored) first; the suggestion
\* of output_chunk_length raises when its range 1..min(20, PRED_STEPS) is empty
DefineModel ==
    /\ pc = "define_model"
    /\ \E l \in LagsProposals :
          \/ /\ suggest_int(OutputChunkLow, OutputChunkUpper(PRED_STEPS)) = {}
             /\ storage' = WithParams(storage, trial, "lags" :> l)
             /\ err' = "ValueError: low > high"
             /\ pc' = "tell"
             /\ UNCHANGED <<lags, model, phases>>
          \/ \E o \in suggest_int(OutputChunkLow, OutputChunkUpper(PRED_STEPS)) :
                /\ storage' = WithParams(storage, trial, "lags" :> l @@ "output_chunk_length" :> o)
                /\ lags' = l
                /\ model' = "built"
                /\ phases' = Append(phases, "Built")
                /\ pc' = "fit"
                /\ UNCHANGED err
    /\ UNCHANGED <<loaded, nRun, trial, model_ref, cache_emptied, te, backtest_series,
                   true_labels, binary_predictions, precision, reported>>
    /\ Fixed

\* the backtest is run on the model as built, fit left out
FitLeftOut ==
    /\ pc = "fit"
    /\ model_ref' = TRUE
    /\ te' = "running"
    /\ pc' = "backtest"
    /\ UNCHANGED <<storage, loaded, nRun, trial, lags, model, phases, err, cache_emptied,
                   backtest_series, true_labels, binary_predictions, precision, reported>>
    /\ Fixed

\* train_and_evaluate, model.fit(...): fits the model, or raises
Fit ==
    /\ pc = "fit"
    /\ model_ref' = TRUE
    /\ \/ /\ model' = "fitted"
          /\ phases' = Append(phases, "Fitted")
          /\ te' = "running"
          /\ pc' = "backtest"
          /\ UNCHANGED err
       \/ /\ err' = "fit raised"
          /\ te' = "raised"
          /\ pc' = "tell"
          /\ UNCHANGED <<model, phases>>
    /\ UNCHANGED <<storage, loaded, nRun, trial, lags, cache_emptied, backtest_series,
                   true_labels, binary_predictions, precision, reported>>
    /\ Fixed

\* the stamp historical_forecasts starts from, given the requested start: a
\* start the model cannot forecast yet is moved to the first point it can
ShiftedStart(start, model_lags) == Max(start, FirstForecastable(model_lags))

\* train_and_evaluate, model.historical_forecasts(series=test,
\* start=test.time_index[-PRED_STEPS], forecast_horizon=1, stride=1, retrain=False).
\* A start before the first forecastable point raises in darts releases that
\* reject it and is moved (with a warning) in those that do not.
Backtest ==
    /\ pc = "backtest"
    /\ LET start == StartStamp(test.len, PRED_STEPS)
           first == ShiftedStart(start, lags)
       IN  \/ /\ first <= test.len
              /\ \E vals \in SeqsOfLen(Probs, test.len - first + 1) :
                    backtest_series' = MakeSeries(ForecastStamps(first, test.len), vals)
              /\ phases' = Append(phases, "Backtested")
              /\ pc' = "score"
              /\ UNCHANGED <<err, te>>
           \/ /\ start < FirstForecastable(lags)
              /\ err' = "historical_forecasts raised"
              /\ te' = "raised"
              /\ pc' = "tell"
              /\ UNCHANGED <<backtest_series, phases>>
    /\ UNCHANGED <<storage, loaded, nRun, trial, lags, model, model_ref, cache_emptied,
                   true_labels, binary_predictions, precision, reported>>
    /\ Fixed

\* train_and_evaluate, lines 103-126: the labels and the forecasts of the last
\* PRED_STEPS points, binarized and scored; then del model and empty_cache()
Score ==
    /\ pc = "score"
    /\ true_labels' = values(TestSlice(PRED_STEPS))
    /\ binary_predictions' = Binarize(values(PyTail(backtest_series, PRED_STEPS)))
    /\ IF ConsistentLength(true_labels', binary_predictions')
       THEN /\ precision' = precision_score(true_labels', binary_predictions')
            /\ phases' = Append(phases, "Scored")
            /\ model_ref' = FALSE
            /\ cache_emptied' = TRUE
            /\ te' = "returned"
            /\ pc' = "log"
            /\ UNCHANGED err
       ELSE /\ err' = "ValueError: inconsistent numbers of samples"
            /\ te' = "raised"
            /\ pc' = "tell"
            /\ UNCHANGED <<precision, phases, model_ref, cache_emptied>>
    /\ UNCHANGED <<storage, loaded, nRun, trial, lags, model, backtest_series, reported>>
    /\ Fixed

\* objective, lines 164-166: logs study.best_value, which raises while the
\* study has no COMPLETE trial (the running trial is still RUNNING)
LogBest ==
    /\ pc = "log"
    /\ err' = IF HasBest(storage) THEN "none" ELSE "ValueError: No trials are completed yet"
    /\ pc' = "tell"
    /\ UNCHANGED <<storage, loaded, nRun, trial, lags, model, model_ref, cache_emptied, te,
                   backtest_series, true_labels, binary_predictions, precision, phases,
                   reported>>
    /\ Fixed

\* the stored trial number n finished
Finished(trials, n, st, val) == [trials EXCEPT ![n + 1].state = st, ![n + 1].value = val]

\* study.optimize, the end of a trial: the value objective returned is stored
\* and the trial is COMPLETE; an exception of objective is stored as FAIL and,
\* optimize being called without catch=, raised again out of optimize
Tell ==
    /\ pc = "tell"
    /\ IF err = "none"
       THEN /\ storage' = Finished(storage, trial, "COMPLETE", precision)
            /\ pc' = "optimize"
            /\ ResetEval
       ELSE /\ storage' = Finished(storage, trial, "FAIL", NoValue)
            /\ pc' = "aborted"
            /\ EvalUnchanged
    /\ UNCHANGED <<loaded, nRun, trial, reported>>
    /\ Fixed

\* lines 178-179, after optimize returned: the best params and value are logged
Report ==
    /\ pc = "optimize"
    /\ nRun = n_trials
    /\ IF HasBest(storage)
       THEN /\ reported' = [params |-> best_params(storage), value |-> best_value(storage)]
            /\ pc' = "done"
       ELSE /\ pc' = "aborted"
            /\ UNCHANGED reported
    /\ UNCHANGED <<storage, loaded, nRun, trial>>
    /\ EvalUnchanged
    /\ Fixed

\* the process is killed while a trial runs: its memory is gone, the storage
\* keeps what was written
Crash ==
    /\ pc \in {"define_model", "fit", "backtest", "score", "log", "tell"}
    /\ pc' = "killed"
    /\ nRun' = 0
    /\ trial' = -1
    /\ loaded' = <<>>
    /\ ResetEval
    /\ UNCHANGED <<storage, reported>>
    /\ Fixed

\* the script is started again
Restart ==
    /\ pc \in {"killed", "aborted", "done"}
    /\ script = "LightGBMModel"
    /\ pc' = "start"
    /\ nRun' = 0
    /\ trial' = -1
    /\ loaded' = <<>>
    /\ reported' = NoValue
    /\ ResetEval
    /\ UNCHANGED storage
    /\ Fixed

\* ------------------------------------------------------------ TSMixerModel_deploy.py
\* __main__, define_model(best_params)
TS_DefineModel ==
    /\ pc = "ts_define"
    /\ model' = "built"
    /\ phases' = Append(phases, "Built")
    /\ pc' = "ts_fit"
    /\ UNCHANGED <<storage, loaded, nRun, trial, lags, model_ref, cache_emptied, te,
                   backtest_series, true_labels, binary_predictions, precision, err,
                   reported>>
    /\ Fixed

\* train_and_evaluate, lines 95-105: model.fit(...), then empty_cache()
TS_Fit ==
    /\ pc = "ts_fit"
    /\ model_ref' = TRUE
    /\ \/ /\ model' = "fitted"
          /\ phases' = Append(phases, "Fitted")
          /\ cache_emptied' = TRUE
          /\ te' = "running"
          /\ pc' = "ts_predict"
          /\ UNCHANGED err
       \/ /\ err' = "fit raised"
          /\ te' = "raised"
          /\ pc' = "aborted"
          /\ UNCHANGED <<model, phases, cache_emptied>>
    /\ UNCHANGED <<storage, loaded, nRun, trial, lags, backtest_series, true_labels,
                   binary_predictions, precision, reported>>
    /\ Fixed

\* train_and_evaluate, lines 108-110: one forecast of pred_steps points that
\* continues test[:-pred_steps]; darts raises when that input is shorter than
\* input_chunk_length
TS_Predict ==
    /\ pc = "ts_predict"
    /\ LET given == PyHeadLen(test.len, PRED_STEPS)
       IN  IF given >= input_chunk_length
           THEN /\ \E vals \in SeqsOfLen(Logits, PRED_STEPS) :
                      backtest_series' =
                          MakeSeries([i \in 1..PRED_STEPS |-> given + i], vals)
                /\ cache_emptied' = FALSE
                /\ phases' = Append(phases, "Predicted")
                /\ pc' = "ts_score"
                /\ UNCHANGED <<err, te>>
           ELSE /\ err' = "predict raised"
                /\ te' = "raised"
                /\ pc' = "aborted"
                /\ UNCHANGED <<backtest_series, cache_emptied, phases>>
    /\ UNCHANGED <<storage, loaded, nRun, trial, lags, model, model_ref, true_labels,
                   binary_predictions, precision, reported>>
    /\ Fixed

\* train_and_evaluate, lines 113-121: sigmoid, threshold, precision_score
TS_Score ==
    /\ pc = "ts_score"
    /\ true_labels' = values(TestSlice(PRED_STEPS))
    /\ binary_predictions' = Binarize(sigmoid_torch(values(backtest_series)))
    /\ IF ConsistentLength(true_labels', binary_predictions')
       THEN /\ precision' = precision_score(true_labels', binary_predictions')
            /\ phases' = Append(phases, "Scored")
            /\ te' = "returned"
            /\ pc' = "ts_save"
            /\ UNCHANGED err
       ELSE /\ err' = "ValueError: inconsistent numbers of samples"
            /\ te' = "raised"
            /\ pc' = "aborted"
            /\ UNCHANGED <<precision, phases>>
    /\ UNCHANGED <<storage, loaded, nRun, trial, lags, model, model_ref, cache_emptied,
                   backtest_series, reported>>
    /\ Fixed

\* __main__, lines 149-154: the model is saved, params and precision logged
TS_Save ==
    /\ pc = "ts_save"
    /\ reported' = [params |-> "input_chunk_length" :> input_chunk_length, value |-> precision]
    /\ pc' = "done"
    /\ UNCHANGED <<storage, loaded, nRun, trial>>
    /\ EvalUnchanged
    /\ Fixed

Next ==
    \/ CreateStudy
    \/ Ask
    \/ DefineModel
    \/ Fit
    \/ Backtest
    \/ Score
    \/ LogBest
    \/ Tell
    \/ Report
    \/ Crash
    \/ Restart
    \/ TS_DefineModel
    \/ TS_Fit
    \/ TS_Predict
    \/ TS_Score
    \/ TS_Save

Spec == Init /\ [][Next]_vars

\* ------------------------------------------------------------ scoring on its own
\* continuous outputs handed to the scoring step, in tenths
ScoreOutputs == {1, 4, 5, 6, 9}

\* labels and outputs of equal length, before lines 109-112 run on them
InitScore ==
    /\ script = "LightGBMModel"
    /\ PRED_STEPS \in 1..MaxLen
    /\ test \in { [len |-> PRED_STEPS, tail |-> l] : l \in SeqsOfLen({0, 1}, PRED_STEPS) }
    /\ backtest_series \in { MakeSeries(ForecastStamps(1, PRED_STEPS), vals) :
                               vals \in SeqsOfLen(ScoreOutputs, PRED_STEPS) }
    /\ storage = <<>>
    /\ loaded = <<>>
    /\ pc = "score"
    /\ nRun = 1
    /\ trial = 0
    /\ lags = 0
    /\ model = "fitted"
    /\ model_ref = TRUE
    /\ cache_emptied = FALSE
    /\ te = "running"
    /\ true_labels = <<>>
    /\ binary_predictions = <<>>
    /\ precision = NoValue
    /\ err = "none"
    /\ phases = <<"Built", "Fitted", "Backtested">>
    /\ reported = NoValue

NextScore == Score

SpecScore == InitScore /\ [][NextScore]_vars

\* ------------------------------------------------------------ properties
\* C1: a trial that raises is stored as FAIL and the study goes on to the
\* next trial: the exception never ends study.optimize.
C1_FailedTrialIsolation ==
    (script = "LightGBMModel" /\ trial >= 0 /\ storage[trial + 1].state = "FAIL")
        => pc # "aborted"

\* C2: whenever train_and_evaluate has ended, by a return or by an exception,
\* the model it was given has been released (del model and empty_cache()).
C2_ReleaseOnEveryExit ==
    te \in {"returned", "raised"} => (~model_ref /\ cache_emptied)

\* the time index of the labels and of the forecasts being scored
LabelIndex == time_index(TestSlice(PRED_STEPS))

ScoredIndex == time_index(PyTail(backtest_series, PRED_STEPS))

\* C3: the forecasts are thresholded and scored only when their time index
\* equals that of the last PRED_STEPS labels; on unequal indices scoring
\* fails before any arithmetic and no score is returned.
C3_IndexGuard ==
    /\ binary_predictions # <<>> => LabelIndex = ScoredIndex
    /\ precision # NoValue => LabelIndex = ScoredIndex

\* C4: a resolved output_chunk_length lies in 1..min(20, PRED_STEPS), and an
\* empty range fails the single trial only: the study continues.
C4_Clamping ==
    /\ (trial >= 0 /\ "output_chunk_length" \in DOMAIN storage[trial + 1].params)
          => /\ OutputChunkLow <= storage[trial + 1].params["output_chunk_length"]
             /\ storage[trial + 1].params["output_chunk_length"] <= Min(OutputChunkHigh, PRED_STEPS)
    /\ err = "ValueError: low > high" => pc # "aborted"

\* C10: a trial whose fit, backtest and scoring succeeded is not failed by
\* the read of study.best_value in objective, whatever the study holds.
C10_BestValueReadIsHarmless ==
    te = "returned" => err = "none"

\* ------------------------------------------------------------ C5
\* 0 <= x <= 1 for a fraction x
InUnitInterval(x) == x[2] >= 1 /\ 0 <= x[1] /\ x[1] <= x[2]

\* C5: on labels and outputs of equal length scoring raises nothing, the
\* precision lies in [0, 1] and is 0 when no output exceeds 0.5; labels
\* [1,0,1,1] with outputs [0.9,0.1,0.6,0.4] binarize to [1,0,1,0] and score 1.
C5_PrecisionRange ==
    /\ pc # "tell"
    /\ pc = "log" =>
          /\ InUnitInterval(precision)
          /\ (\A i \in 1..Len(backtest_series) : backtest_series[i].v <= Threshold)
                => precision = <<0, 1>>
          /\ (true_labels = <<1, 0, 1, 1>> /\ values(backtest_series) = <<9, 1, 6, 4>>)
                => (binary_predictions = <<1, 0, 1, 0>> /\ precision = <<1, 1>>)

C5_Witness ==
    /\ pc = "log"
    /\ true_labels = <<1, 0, 1, 1>>
    /\ values(backtest_series) = <<9, 1, 6, 4>>
    /\ precision = <<1, 1>>

\* ------------------------------------------------------------ C6
C6_Step ==
    /\ HasBest(storage') =>
          /\ \E i \in CompleteTrials(storage') :
                /\ storage'[i].value = best_value(storage')
                /\ storage'[i].params = best_params(storage')
          /\ \A j \in CompleteTrials(storage') :
                ~FracLess(best_value(storage'), storage'[j].value)
    /\ (HasBest(storage) /\ HasBest(storage') /\ best_value(storage') # best_value(storage))
          => /\ pc = "tell" /\ err = "none"
             /\ storage'[trial + 1].state = "COMPLETE"
             /\ storage'[trial + 1].value = precision
             /\ FracLess(best_value(storage), precision)
             /\ best_value(storage') = precision
    /\ (~HasBest(storage) /\ HasBest(storage')) => (pc = "tell" /\ err = "none")
    /\ (script = "LightGBMModel" /\ pc' = "done") =>
          /\ \E i \in CompleteTrials(storage') :
                /\ storage'[i].value = reported'.value
                /\ storage'[i].params = reported'.params
          /\ \A j \in CompleteTrials(storage') : ~FracLess(reported'.value, storage'[j].value)

\* C6: the best value is the greatest score among the COMPLETE trials and
\* the best params are those of a trial with that score; it changes only when
\* a trial completes with a strictly greater score; FAIL and RUNNING trials
\* never count, and the final report reads a COMPLETE trial.
C6_BestSoFar == [][C6_Step]_vars

C6_Witness ==
    /\ pc = "optimize"
    /\ trial >= 0
    /\ HasBest(storage)
    /\ BestIndex(storage) = trial + 1
    /\ \E j \in CompleteTrials(storage) :
          j < trial + 1 /\ FracLess(storage[j].value, storage[trial + 1].value)

\* ------------------------------------------------------------ C7
IsPrefix(s, t) == Len(s) <= Len(t) /\ s = SubSeq(t, 1, Len(s))

BacktestOrder == <<"Built", "Fitted", "Backtested", "Scored">>

PredictOrder == <<"Built", "Fitted", "Predicted", "Scored">>

\* C7: every evaluation goes Built, Fitted, Backtested, Scored in that
\* order with nothing skipped or repeated, and a score comes only after a
\* rolling backtest on a fitted model.
C7_PhaseOrder ==
    /\ IsPrefix(phases, BacktestOrder)
    /\ precision # NoValue => phases = BacktestOrder

\* C7 amended: that order holds in LightGBMModel.py; in TSMixerModel_deploy.py
\* the third step is one forecast of pred_steps points, not a rolling backtest.
C7_PhaseOrderByScript ==
    /\ script = "LightGBMModel" =>
          /\ IsPrefix(phases, BacktestOrder)
          /\ precision # NoValue => phases = BacktestOrder
          /\ backtest_series # NoSeries => (model = "fitted" /\ Len(phases) >= 3)
    /\ script = "TSMixerModel_deploy" =>
          /\ IsPrefix(phases, PredictOrder)
          /\ precision # NoValue => phases = PredictOrder
          /\ backtest_series # NoSeries => (model = "fitted" /\ Len(phases) >= 3)

C7_Witness ==
    /\ script = "LightGBMModel"
    /\ pc = "log"
    /\ precision # NoValue
    /\ phases = BacktestOrder

\* ------------------------------------------------------------ C8
C8_Step ==
    /\ Len(storage') >= Len(storage)
    /\ \A i \in 1..Len(storage') : storage'[i].number = i - 1
    /\ \A i \in 1..Len(storage) :
          /\ storage'[i].number = storage[i].number
          /\ storage[i].state # "RUNNING" => storage'[i] = storage[i]
          /\ \A k \in DOMAIN storage[i].params :
                k \in DOMAIN storage'[i].params /\ storage'[i].params[k] = storage[i].params[k]
    /\ (pc = "start" /\ pc' = "optimize") => (loaded' = storage /\ storage' = storage)

\* C8: the trials are stored as they are written and never lost, deleted,
\* duplicated or altered; loading the study by name, also after a crash or
\* a restart, yields exactly the stored trials with their ids, params, scores.
C8_Persistence == [][C8_Step]_vars

C8_Witness ==
    /\ pc = "optimize"
    /\ nRun = 0
    /\ loaded = storage
    /\ Len(loaded) >= 2
    /\ \E i \in 1..Len(loaded) : loaded[i].state = "RUNNING" /\ loaded[i].params # NoParams
    /\ \E i \in 1..Len(loaded) : loaded[i].state = "COMPLETE"

\* ------------------------------------------------------------ C9
\* C9: for every test of at least PRED_STEPS points the backtest returns
\* exactly PRED_STEPS forecasts, the i-th stamped as the i-th of the last
\* PRED_STEPS points of test.
C9_BacktestWindow ==
    script = "LightGBMModel" =>
        /\ err # "historical_forecasts raised"
        /\ backtest_series # NoSeries =>
              /\ Len(backtest_series) = PRED_STEPS
              /\ time_index(backtest_series) = LabelIndex

\* C9 amended: that holds for every test of at least PRED_STEPS + lags
\* points, lags being the target lags of the model.
C9_BacktestWindowWithHistory ==
    (script = "LightGBMModel" /\ test.len >= PRED_STEPS + lags) =>
        /\ err # "historical_forecasts raised"
        /\ backtest_series # NoSeries =>
              /\ Len(backtest_series) = PRED_STEPS
              /\ time_index(backtest_series) = LabelIndex
              /\ PyTail(backtest_series, PRED_STEPS) = backtest_series

C9_Witness ==
    /\ script = "LightGBMModel"
    /\ pc = "score"
    /\ lags >= 1
    /\ test.len = PRED_STEPS + lags
    /\ Len(backtest_series) = PRED_STEPS
    /\ time_index(backtest_series) = LabelIndex
====
